---------------------------- MODULE Spec2Model ----------------------------
(***************************************************************************)
(* Model of the benten text index and ingestion pipeline:                  *)
(*   - Normalize (index.go) and the gram tokenizer (cmd/syncer/main.go),   *)
(*   - updateMetadata / spanPieceIndex / deleteIndexFor / clearIndex       *)
(*     against the datastore, interleaved with the list query of           *)
(*     cmd/gae/main.go                                   (SpecStore),      *)
(*   - the debouncing loop sync() and its timer          (SpecDebounce).   *)
(*                                                                         *)
(* A Go string is modelled as a sequence of Unicode code points where the  *)
(* code works on runes (Normalize, strings.ToLower) and as the sequence of *)
(* its UTF-8 bytes where the code indexes bytes (text[i], len(text)).      *)
(***************************************************************************)
EXTENDS Integers, Sequences, FiniteSets, Bags, TLC

(***************************************************************************)
(* Text: code points, UTF-8, Normalize                                     *)
(***************************************************************************)

\* unicode.MaxASCII
MaxASCII == 127

\* The UTF-8 encoding of one code point of the Basic Multilingual Plane.
UTF8Rune(cp) ==
    IF cp < 128 THEN <<cp>>
    ELSE IF cp < 2048 THEN <<192 + (cp \div 64), 128 + (cp % 64)>>
    ELSE <<224 + (cp \div 4096), 128 + ((cp \div 64) % 64), 128 + (cp % 64)>>

RECURSIVE Flatten(_)
\* Concatenation of a sequence of sequences.
Flatten(ss) == IF ss = <<>> THEN <<>> ELSE Head(ss) \o Flatten(Tail(ss))

\* The bytes of a Go string holding the code points s.
UTF8(s) == Flatten([i \in 1..Len(s) |-> UTF8Rune(s[i])])

\* norm.NFKD on the code points the model uses: precomposed Latin letters
\* decompose to base letter + combining mark, the IJ ligatures have a
\* compatibility decomposition, AE/OE/sharp s and CJK ideographs have none.
NFKDRune(cp) ==
    CASE cp = 193 -> <<65, 769>>     \* A-acute  -> A, U+0301
      [] cp = 225 -> <<97, 769>>     \* a-acute  -> a, U+0301
      [] cp = 197 -> <<65, 778>>     \* A-ring   -> A, U+030A
      [] cp = 199 -> <<67, 807>>     \* C-cedilla-> C, U+0327
      [] cp = 200 -> <<69, 768>>     \* E-grave  -> E, U+0300
      [] cp = 241 -> <<110, 771>>    \* n-tilde  -> n, U+0303
      [] cp = 246 -> <<111, 776>>    \* o-diaer. -> o, U+0308
      [] cp = 251 -> <<117, 770>>    \* u-circ.  -> u, U+0302
      [] cp = 306 -> <<73, 74>>      \* U+0132 IJ ligature -> I, J
      [] cp = 307 -> <<105, 106>>    \* U+0133 ij ligature -> i, j
      [] cp = 65345 -> <<97>>        \* U+FF41 fullwidth a -> a
      [] cp = 65346 -> <<98>>        \* U+FF42 fullwidth b -> b
      [] OTHER -> <<cp>>

\* unicode.ToLower on the code points the model uses.
ToLowerRune(cp) ==
    IF cp >= 65 /\ cp <= 90 THEN cp + 32
    ELSE IF cp >= 192 /\ cp <= 222 /\ cp # 215 THEN cp + 32
    ELSE IF cp = 306 \/ cp = 338 THEN cp + 1
    ELSE IF cp = 931 THEN 963        \* capital sigma -> sigma
    ELSE IF cp = 65313 \/ cp = 65314 THEN cp + 32
    ELSE cp

\* unicode.ToUpper on the code points the model uses.
ToUpperRune(cp) ==
    IF cp >= 97 /\ cp <= 122 THEN cp - 32
    ELSE IF cp >= 224 /\ cp <= 254 /\ cp # 247 THEN cp - 32
    ELSE IF cp = 307 \/ cp = 339 THEN cp - 1
    ELSE IF cp = 305 THEN 73                   \* dotless i -> I
    ELSE IF cp = 962 \/ cp = 963 THEN 931      \* both sigmas -> capital
    ELSE IF cp = 65345 \/ cp = 65346 THEN cp - 32
    ELSE cp

\* strings.ToUpper
ToUpper(s) == [i \in 1..Len(s) |-> ToUpperRune(s[i])]

\* strings.ToLower
ToLower(s) == [i \in 1..Len(s) |-> ToLowerRune(s[i])]

\* The combining marks the Replacer of Normalize deletes.
CombiningMarks ==
    {769, 775, 777, 768, 770, 771, 772, 774, 776, 778, 779, 780, 795,
     803, 806, 807, 808}

\* One step of the strings.Replacer of Normalize: every pattern is a single
\* code point, so the replacement is a map over the code points.
ReplaceRune(cp) ==
    IF cp \in CombiningMarks THEN <<>>
    ELSE CASE cp = 230 -> <<97, 101>>      \* U+00E6 -> ae
           [] cp = 307 -> <<105, 106>>     \* U+0133 -> ij
           [] cp = 339 -> <<111, 101>>     \* U+0153 -> oe
           [] cp = 223 -> <<115, 115>>     \* U+00DF -> ss
           [] OTHER -> <<cp>>

\* Normalize that replaces before it lower-cases.
NormalizeReplacesFirst(s) ==
    LET d == Flatten([i \in 1..Len(s) |-> NFKDRune(s[i])])
        r == Flatten([i \in 1..Len(d) |-> ReplaceRune(d[i])])
    IN  ToLower(r)

\* Normalize that replaces before it decomposes.
NormalizeDecomposesLast(s) ==
    LET r == Flatten([i \in 1..Len(s) |-> ReplaceRune(s[i])])
        d == Flatten([i \in 1..Len(r) |-> NFKDRune(r[i])])
    IN  ToLower(d)

\* benten.Normalize: r.Replace(strings.ToLower(norm.NFKD.String(s)))
Normalize(s) ==
    LET d == Flatten([i \in 1..Len(s) |-> NFKDRune(s[i])])
        l == ToLower(d)
    IN  Flatten([i \in 1..Len(l) |-> ReplaceRune(l[i])])

(***************************************************************************)
(* Gram tokenizer                                                          *)
(***************************************************************************)

GramSizeForAscii == 4
GramSizeForNonAscii == 6

\* text[i:j] of Go (0-based, half open) on a byte sequence.
Slice(text, i, j) == SubSeq(text, i + 1, j)

RECURSIVE ScanGramForgetsEarlierBytes(_, _, _, _)
\* ScanGram whose isASCII is the test of the last byte read alone.
ScanGramForgetsEarlierBytes(text, i, j, isASCII) ==
    IF (j = GramSizeForAscii /\ isASCII) \/ j = GramSizeForNonAscii
    THEN {Slice(text, i, i + j)}
    ELSE IF i + j = Len(text) THEN {}
    ELSE ScanGramForgetsEarlierBytes(text, i, j + 1,
                                     text[i + j + 1] <= MaxASCII)

RECURSIVE ScanGramKeepsTail(_, _, _, _)
\* ScanGram that emits what is left of the text when it reaches its end.
ScanGramKeepsTail(text, i, j, isASCII) ==
    IF (j = GramSizeForAscii /\ isASCII) \/ j = GramSizeForNonAscii
    THEN {Slice(text, i, i + j)}
    ELSE IF i + j = Len(text) THEN {Slice(text, i, i + j)}
    ELSE ScanGramKeepsTail(text, i, j + 1,
                           isASCII /\ text[i + j + 1] <= MaxASCII)

RECURSIVE ScanGram(_, _, _, _)
\* The inner loop of generateWordsForIndexInternal for start offset i, at
\* loop index j: the set holding the gram emitted for i, or the empty set.
ScanGram(text, i, j, isASCII) ==
    IF (j = GramSizeForAscii /\ isASCII) \/ j = GramSizeForNonAscii
    THEN {Slice(text, i, i + j)}
    ELSE IF i + j = Len(text) THEN {}
    ELSE ScanGram(text, i, j + 1, isASCII /\ text[i + j + 1] <= MaxASCII)

\* generateWordsForIndexInternal that adds a short text as one word.
generateWordsForIndexInternalKeepsShort(text) ==
    IF Len(text) < GramSizeForAscii THEN {text}
    ELSE UNION {ScanGram(text, i, 0, TRUE) :
                    i \in 0..(Len(text) - GramSizeForAscii)}

\* generateWordsForIndexInternal that starts no word at a UTF-8
\* continuation byte.
generateWordsForIndexInternalAligned(text) ==
    IF Len(text) < GramSizeForAscii THEN {}
    ELSE UNION {ScanGram(text, i, 0, TRUE) :
                    i \in {k \in 0..(Len(text) - GramSizeForAscii) :
                               text[k + 1] < 128 \/ text[k + 1] >= 192}}

\* generateWordsForIndexInternal whose outer loop stops one offset early.
generateWordsForIndexInternalMissesLast(text) ==
    IF Len(text) < GramSizeForAscii THEN {}
    ELSE UNION {ScanGram(text, i, 0, TRUE) :
                    i \in 0..(Len(text) - GramSizeForAscii - 1)}

\* generateWordsForIndexInternal: the words added for the byte string text.
generateWordsForIndexInternal(text) ==
    IF Len(text) < GramSizeForAscii THEN {}
    ELSE UNION {ScanGram(text, i, 0, TRUE) :
                    i \in 0..(Len(text) - GramSizeForAscii)}

\* generateWordsForIndex, for a string of code points.
generateWordsForIndex(text) ==
    generateWordsForIndexInternal(UTF8(Normalize(text)))

(***************************************************************************)
(* Inputs of the datastore model                                           *)
(***************************************************************************)

\* Bounds of the model.
MaxSyncs == 3
MaxQuerySyncs == 2
MaxClears == 1

Paths == {"p1", "p2"}

\* "abcd"
TextAbcd == <<97, 98, 99, 100>>
\* "wxyz"
TextWxyz == <<119, 120, 121, 122>>
\* "A-acute b c d e", which normalizes to "abcde"
TextAbcdeAccent == <<193, 98, 99, 100, 101>>

\* The searchable tag fields of two versions of a track.
TagsOld ==
    [Title |-> TextAbcd, Album |-> <<>>, Artist |-> <<>>,
     AlbumArtist |-> <<>>, Composer |-> TextWxyz]
TagsNew ==
    [Title |-> TextAbcdeAccent, Album |-> TextAbcd, Artist |-> <<>>,
     AlbumArtist |-> <<>>, Composer |-> <<>>]

\* benten.Metadata, restricted to the fields the index pipeline reads: a
\* track, the same file with its tags edited, a byte-identical copy at
\* another path, and a different file at that other path.
Metadata ==
    {[Tags |-> TagsOld, Hash |-> "h1", Path |-> "p1"],
     [Tags |-> TagsNew, Hash |-> "h1", Path |-> "p1"],
     [Tags |-> TagsOld, Hash |-> "h1", Path |-> "p2"],
     [Tags |-> TagsNew, Hash |-> "h2", Path |-> "p2"]}

\* Identities the datastore can hand out for Pieces.
PieceIDs == 1..MaxSyncs

\* Search phrases of list requests: "abcd", "abc" and "abcde".
Phrases == {TextAbcd, <<97, 98, 99>>, <<97, 98, 99, 100, 101>>}
DefaultLimit == 10
Limits == {1, DefaultLimit}

(***************************************************************************)
(* Datastore values                                                        *)
(***************************************************************************)

\* A property value of kind *datastore.Key, a nil *datastore.Key, and an int.
KeyValue(id) == [type |-> "key", id |-> id]
NilKey == [type |-> "null", id |-> 0]
IntValue(i) == [type |-> "int", id |-> i]

\* benten.PieceIndex
PieceIndex(word, key) == [Key |-> word, Value |-> key]

Range(f) == {f[i] : i \in DOMAIN f}

Min(S) == CHOOSE x \in S : \A y \in S : x <= y

RECURSIVE SortedSeq(_)
\* The elements of a finite set of integers in ascending order.
SortedSeq(S) ==
    IF S = {} THEN <<>> ELSE <<Min(S)>> \o SortedSeq(S \ {Min(S)})

RECURSIVE Repeat(_, _)
\* n copies of x.
Repeat(x, n) == IF n = 0 THEN <<>> ELSE <<x>> \o Repeat(x, n - 1)

VARIABLES
    pieces,      \* datastore kind Piece: identity -> Metadata
    index,       \* datastore kind PieceIndex: bag of PieceIndex entities
    allocated,   \* identities the datastore has handed out
    upc,         \* position of updateMetadata: "idle" or "span"
    cur,         \* the Metadata and the key updateMetadata is working on
    stepFailed,  \* some step of the current / last updateMetadata failed
    result,      \* return value of the last updateMetadata
    retired,     \* the Pieces the current / last updateMetadata deleted
    storeChanged,\* the current / last updateMetadata changed the store
    syncs,       \* number of updateMetadata calls so far
    cpc,         \* clearIndex: "off" or "run"
    clears,      \* number of clearIndex runs started
    lpc,         \* list: "idle" or "fetch"
    lsearch,     \* list: the normalized phrase (bytes)
    liter,       \* list: the Values the index query has still to deliver
    lastKey,     \* list: lastKey
    lpieces,     \* list: pieces collected so far
    llimit,      \* list: limit
    response     \* the last response list wrote

storeVars ==
    <<pieces, index, allocated, upc, cur, stepFailed, result, retired,
      storeChanged, syncs, cpc, clears>>
listVars == <<lpc, lsearch, liter, lastKey, lpieces, llimit, response>>

NoMetadata == [Tags |-> TagsOld, Hash |-> "", Path |-> ""]
NoResponse == [status |-> 0, pieces |-> <<>>]

InitStore ==
    /\ pieces = <<>>
    /\ index = EmptyBag
    /\ allocated = {}
    /\ upc = "idle"
    /\ cur = [m |-> NoMetadata, key |-> NilKey]
    /\ stepFailed = FALSE
    /\ result = "none"
    /\ retired = <<>>
    /\ storeChanged = FALSE
    /\ syncs = 0
    /\ cpc = "off"
    /\ clears = 0

InitList ==
    /\ lpc = "idle"
    /\ lsearch = <<>>
    /\ liter = <<>>
    /\ lastKey = NilKey
    /\ lpieces = <<>>
    /\ llimit = DefaultLimit
    /\ response = NoResponse

(***************************************************************************)
(* updateMetadata and spanPieceIndex                                       *)
(***************************************************************************)

\* HashQuery with the filter put on the wrong property.
HashQueryWrongProperty(ps, hash) ==
    SortedSeq({k \in DOMAIN ps : ps[k].Path = hash})

\* Keys of the Pieces a keys-only query with Filter("Hash =", hash) returns.
HashQuery(ps, hash) == SortedSeq({k \in DOMAIN ps : ps[k].Hash = hash})

\* PathQuery with the filter put on the wrong property.
PathQueryWrongProperty(ps, path) ==
    SortedSeq({k \in DOMAIN ps : ps[k].Hash = path})

\* Keys of the Pieces a keys-only query with Filter("Path =", path) returns.
PathQuery(ps, path) == SortedSeq({k \in DOMAIN ps : ps[k].Path = path})

\* deleteMatchedPieces without an error: every key the iterator delivers is
\* deleted in the transaction and appended to deletedPieces.
deleteMatchedPieces(iter) == iter

\* The PieceIndex entities a query with Filter("Value =", v) returns.
IndexQueryByValue(ix, v) == {e \in BagToSet(ix) : e.Value = v}

\* deleteIndexFor: the PieceIndex entities it deletes.  "for key := range
\* keys" binds key to the position 0..len(keys)-1, an int, and that int is
\* the operand of the filter on Value.
deleteIndexFor(ix, keys) ==
    UNION {IndexQueryByValue(ix, IntValue(i)) : i \in 0..(Len(keys) - 1)}

\* IndexWords that leaves out the Composer.
IndexWordsNoComposer(tags) ==
    generateWordsForIndex(ToLower(tags.Title))
        \cup generateWordsForIndex(ToLower(tags.Album))
        \cup generateWordsForIndex(ToLower(tags.Artist))
        \cup generateWordsForIndex(ToLower(tags.AlbumArtist))

\* The words spanPieceIndex collects from the five searchable fields.
IndexWords(tags) ==
    generateWordsForIndex(ToLower(tags.Title))
        \cup generateWordsForIndex(ToLower(tags.Album))
        \cup generateWordsForIndex(ToLower(tags.Artist))
        \cup generateWordsForIndex(ToLower(tags.AlbumArtist))
        \cup generateWordsForIndex(ToLower(tags.Composer))

\* spanPieceIndex calling the tokenizer on the raw text of the fields.
spanPieceIndexRaw(m, key) ==
    SetToBag({PieceIndex(w, key) : w \in
        generateWordsForIndexInternal(UTF8(m.Tags.Title))
            \cup generateWordsForIndexInternal(UTF8(m.Tags.Album))
            \cup generateWordsForIndexInternal(UTF8(m.Tags.Artist))
            \cup generateWordsForIndexInternal(UTF8(m.Tags.AlbumArtist))
            \cup generateWordsForIndexInternal(UTF8(m.Tags.Composer))})

\* The entities the transaction of spanPieceIndex puts: one per word.
spanPieceIndex(m, key) ==
    SetToBag({PieceIndex(w, key) : w \in IndexWords(m.Tags)})

\* A bag without any copy of the elements of del.
BagWithout(b, del) == [e \in (DOMAIN b) \ del |-> b[e]]

\* The Pieces of ps outside ids, plus m under the identity new.
ReplacePieces(ps, ids, new, m) ==
    [k \in ((DOMAIN ps) \ ids) \cup {new} |-> IF k = new THEN m ELSE ps[k]]

\* updateMetadata up to and including a successful tr.Commit(): the Pieces
\* matching the Hash or the Path are deleted, deleteIndexFor runs on the
\* list of deleted keys, the new Piece is put under the fresh identity new
\* that the datastore chooses for the incomplete key.
UpdateMetadataCommit(m, new) ==
    /\ upc = "idle" /\ cpc = "off" /\ syncs < MaxSyncs
    /\ new \in PieceIDs \ allocated
    /\ LET deletedPieces == deleteMatchedPieces(HashQuery(pieces, m.Hash))
                \o deleteMatchedPieces(PathQuery(pieces, m.Path))
       IN  /\ pieces' = ReplacePieces(pieces, Range(deletedPieces), new, m)
           /\ index' = BagWithout(index, deleteIndexFor(index, deletedPieces))
           /\ allocated' = allocated \cup {new}
           /\ cur' = [m |-> m, key |-> KeyValue(new)]
           /\ retired' = [k \in Range(deletedPieces) |-> pieces[k]]
    /\ upc' = "span"
    /\ stepFailed' = FALSE
    /\ storeChanged' = TRUE
    /\ syncs' = syncs + 1
    /\ UNCHANGED <<result, cpc, clears>>

\* updateMetadata returning an error before tr.Commit(): NewTransaction, a
\* query, a Delete or the Put failed; the deferred Rollback drops the writes.
UpdateMetadataAbort ==
    /\ upc = "idle" /\ cpc = "off" /\ syncs < MaxSyncs
    /\ stepFailed' = TRUE
    /\ result' = "err"
    /\ retired' = <<>>
    /\ storeChanged' = FALSE
    /\ syncs' = syncs + 1
    /\ UNCHANGED <<pieces, index, allocated, upc, cur, cpc, clears>>

\* tr.Commit() fails: the error is logged and not returned, nothing of the
\* transaction is stored, and commit.Key(pendingKey) is the nil key of a
\* pending key that was never resolved; spanPieceIndex runs with it.
UpdateMetadataCommitFail(m) ==
    /\ upc = "idle" /\ cpc = "off" /\ syncs < MaxSyncs
    /\ cur' = [m |-> m, key |-> NilKey]
    /\ upc' = "span"
    /\ stepFailed' = TRUE
    /\ retired' = <<>>
    /\ storeChanged' = FALSE
    /\ syncs' = syncs + 1
    /\ UNCHANGED <<pieces, index, allocated, result, cpc, clears>>

\* spanPieceIndex commits its own transaction; updateMetadata returns nil.
SpanPieceIndexCommit ==
    /\ upc = "span"
    /\ index' = index (+) spanPieceIndex(cur.m, cur.key)
    /\ upc' = "idle"
    /\ result' = "nil"
    /\ storeChanged' = (storeChanged \/ index' # index)
    /\ UNCHANGED <<pieces, allocated, cur, stepFailed, retired, syncs, cpc,
                   clears>>

\* spanPieceIndex fails (NewTransaction, a Put or the Commit): its deferred
\* Rollback drops the puts and updateMetadata returns the error.
SpanPieceIndexFail ==
    /\ upc = "span"
    /\ upc' = "idle"
    /\ stepFailed' = TRUE
    /\ result' = "err"
    /\ UNCHANGED <<pieces, index, allocated, cur, retired, storeChanged,
                   syncs, cpc, clears>>

(***************************************************************************)
(* clearIndex (run at start-up with -clear-index, before sync starts)      *)
(***************************************************************************)

\* The process is started again with -clear-index: clearIndex begins; the
\* return value of the last updateMetadata belongs to the previous run.
ClearIndexBegin ==
    /\ upc = "idle" /\ cpc = "off" /\ clears < MaxClears
    /\ cpc' = "run"
    /\ clears' = clears + 1
    /\ result' = "none"
    /\ UNCHANGED <<pieces, index, allocated, upc, cur, stepFailed, retired,
                   storeChanged, syncs>>

\* One iteration of the loop of clearIndex: client.Delete of one entity.
ClearIndexDelete ==
    /\ cpc = "run"
    /\ \E e \in BagToSet(index) : index' = index (-) SetToBag({e})
    /\ UNCHANGED <<pieces, allocated, upc, cur, stepFailed, result, retired,
                   storeChanged, syncs, cpc, clears>>

\* clearIndex returns: iterator.Done, or an error of Next or Delete.
ClearIndexReturn ==
    /\ cpc = "run"
    /\ cpc' = "off"
    /\ UNCHANGED <<pieces, index, allocated, upc, cur, stepFailed, result,
                   retired, storeChanged, syncs, clears>>

(***************************************************************************)
(* list (cmd/gae/main.go)                                                  *)
(***************************************************************************)

\* strings.Contains on byte strings.
Contains(text, sub) ==
    \E i \in 0..(Len(text) - Len(sub)) : Slice(text, i, i + Len(sub)) = sub

\* IsASCIIPrefix that tests the first byte only.
IsASCIIPrefixFirstByte(search) ==
    search[1] <= MaxASCII

\* IsASCIIPrefix that tests every byte of search.
IsASCIIPrefixWholeSearch(search) ==
    \A i \in 1..Len(search) : search[i] <= MaxASCII

\* The test of list on the first GramSizeForAscii bytes of search.
IsASCIIPrefix(search) ==
    \A i \in 1..GramSizeForAscii : search[i] <= MaxASCII

\* LookupGram that asks for more than GramSizeForNonAscii bytes.
LookupGramRejectsSix(search) ==
    IF Len(search) < GramSizeForAscii THEN [status |-> 400, bytes |-> <<>>]
    ELSE IF IsASCIIPrefix(search)
         THEN [status |-> 0, bytes |-> Slice(search, 0, GramSizeForAscii)]
    ELSE IF Len(search) <= GramSizeForNonAscii
         THEN [status |-> 404, bytes |-> <<>>]
    ELSE [status |-> 0, bytes |-> Slice(search, 0, GramSizeForNonAscii)]

\* The outcome of the length checks of list: the status of the rejection,
\* or 0 and the bytes of the lookup gram.
LookupGram(search) ==
    IF Len(search) < GramSizeForAscii THEN [status |-> 400, bytes |-> <<>>]
    ELSE IF IsASCIIPrefix(search)
         THEN [status |-> 0, bytes |-> Slice(search, 0, GramSizeForAscii)]
    ELSE IF Len(search) < GramSizeForNonAscii
         THEN [status |-> 404, bytes |-> <<>>]
    ELSE [status |-> 0, bytes |-> Slice(search, 0, GramSizeForNonAscii)]

\* Position of a Value in the order of Order("Value"): null sorts first,
\* keys sort by identity.
ValueRank(v) == IF v = NilKey THEN 0 ELSE v.id

RECURSIVE ValuesInOrder(_, _, _)
\* The Values of the entities of ix whose Key is bytes, in ascending order,
\* one per entity; ranks is the set of ranks still to deliver.
ValuesInOrder(ix, bytes, ranks) ==
    IF ranks = {} THEN <<>>
    ELSE LET r == Min(ranks)
             v == IF r = 0 THEN NilKey ELSE KeyValue(r)
         IN  Repeat(v, CopiesIn(PieceIndex(bytes, v), ix))
                 \o ValuesInOrder(ix, bytes, ranks \ {r})

\* The query Filter("Key =", bytes).Order("Value").Limit(limit), as the
\* sequence of the Values of its results.
IndexQueryByKey(ix, bytes, limit) ==
    LET all == ValuesInOrder(ix, bytes,
                   {ValueRank(e.Value) : e \in
                        {x \in BagToSet(ix) : x.Key = bytes}})
    IN  SubSeq(all, 1, IF Len(all) < limit THEN Len(all) ELSE limit)

\* MatchesPhrase that looks for the leading gram of the phrase only.
MatchesPhraseLeadingGram(tags, search) ==
    \/ Contains(UTF8(ToLower(tags.Title)), Slice(search, 0, 4))
    \/ Contains(UTF8(ToLower(tags.Album)), Slice(search, 0, 4))
    \/ Contains(UTF8(ToLower(tags.Artist)), Slice(search, 0, 4))
    \/ Contains(UTF8(ToLower(tags.AlbumArtist)), Slice(search, 0, 4))

\* The substring filter of list on one fetched Piece.
MatchesPhrase(tags, search) ==
    \/ Contains(UTF8(ToLower(tags.Title)), search)
    \/ Contains(UTF8(ToLower(tags.Album)), search)
    \/ Contains(UTF8(ToLower(tags.Artist)), search)
    \/ Contains(UTF8(ToLower(tags.AlbumArtist)), search)

\* list up to the index query: the phrase is normalized and checked for
\* length; a rejected request is answered at once, otherwise the index
\* query runs and the fetch loop begins.
ListQuery(q, limit) ==
    /\ lpc = "idle"
    /\ LET search == UTF8(Normalize(q))
           g == LookupGram(search)
       IN  IF g.status # 0
           THEN /\ response' = [status |-> g.status, pieces |-> <<>>]
                /\ UNCHANGED <<lpc, lsearch, liter, lastKey, lpieces,
                               llimit>>
           ELSE /\ lpc' = "fetch"
                /\ lsearch' = search
                /\ liter' = IndexQueryByKey(index, g.bytes, limit)
                /\ lastKey' = NilKey
                /\ lpieces' = <<>>
                /\ llimit' = limit
                /\ response' = NoResponse

\* ListNext that goes on to the next index entry when client.Get fails.
ListNextSkipsUnfetchable ==
    /\ lpc = "fetch" /\ liter # <<>>
    /\ LET v == Head(liter)
       IN  IF \/ lastKey # NilKey /\ v # NilKey /\ v.id = lastKey.id
              \/ v = NilKey
              \/ v.id \notin DOMAIN pieces
           THEN /\ liter' = Tail(liter)
                /\ UNCHANGED <<lpc, lsearch, lastKey, lpieces, llimit,
                               response>>
           ELSE /\ lastKey' = v
                /\ liter' = Tail(liter)
                /\ lpieces' = IF MatchesPhrase(pieces[v.id].Tags, lsearch)
                              THEN Append(lpieces, pieces[v.id])
                              ELSE lpieces
                /\ UNCHANGED <<lpc, lsearch, llimit, response>>

\* One iteration of the loop of list on the next index entry: an entry with
\* the identity of lastKey is skipped; otherwise its Piece is fetched, a
\* failing client.Get (nil key, no such entity) ends the request with 500, a
\* fetched Piece is appended when it contains the phrase.
ListNext ==
    /\ lpc = "fetch" /\ liter # <<>>
    /\ LET v == Head(liter)
       IN  IF lastKey # NilKey /\ v # NilKey /\ v.id = lastKey.id
           THEN /\ liter' = Tail(liter)
                /\ UNCHANGED <<lpc, lsearch, lastKey, lpieces, llimit,
                               response>>
           ELSE IF v = NilKey \/ v.id \notin DOMAIN pieces
           THEN /\ response' = [status |-> 500, pieces |-> <<>>]
                /\ lpc' = "idle"
                /\ lsearch' = <<>>
                /\ lastKey' = NilKey
                /\ liter' = <<>>
                /\ lpieces' = <<>>
                /\ llimit' = DefaultLimit
           ELSE /\ lastKey' = v
                /\ liter' = Tail(liter)
                /\ lpieces' = IF MatchesPhrase(pieces[v.id].Tags, lsearch)
                              THEN Append(lpieces, pieces[v.id])
                              ELSE lpieces
                /\ UNCHANGED <<lpc, lsearch, llimit, response>>

\* iterator.Done: list answers 200 with the pieces collected.
ListRespond ==
    /\ lpc = "fetch" /\ liter = <<>>
    /\ response' = [status |-> 200, pieces |-> lpieces]
    /\ lpc' = "idle"
    /\ lsearch' = <<>>
    /\ lastKey' = NilKey
    /\ lpieces' = <<>>
    /\ llimit' = DefaultLimit
    /\ UNCHANGED liter

(***************************************************************************)
(* The debouncer: sync (cmd/syncer/main.go)                                *)
(*                                                                         *)
(* Time advances in steps of one second (Tick).  A stored time.Time is     *)
(* represented by the time elapsed since it was taken, saturated at        *)
(* Duration: the code reads a timestamp only in                            *)
(* time.Now().Sub(timestamp) >= duration.  A timer is represented by the   *)
(* time left until it fires.                                               *)
(***************************************************************************)

\* duration := time.Second * 5, in seconds
Duration == 5

\* Bounds of the model.
MaxFiles == 3
MaxQueue == 2
MaxBurst == 3

Inc(age) == IF age < Duration THEN age + 1 ELSE age
Dec(left) == IF left > 0 THEN left - 1 ELSE 0

VARIABLES
    filenames,     \* sync: the ledger, name -> age of its timestamp
    isTimerActive, \* sync: isTimerActive
    timers,        \* time.AfterFunc timers not yet fired: time left of each
    chSenders,     \* timer callbacks blocked in ch <- ""
    watcherQ,      \* Write events of the watcher waiting in ch <- event.Name
    dpc,           \* sync: "recv" (at <-ch), "pass" or "send" (settle pass)
    oldFilenames,  \* sync: entries of oldFilenames not yet visited
    sending,       \* sync: the name blocked in chInternal <- name
    syncer,        \* syncInternal: "init", "idle" (at <-ch), "busy",
                   \* "returned" or "panicked" (the process has exited)
    working,       \* the names received from chInternal and in process
    failed,        \* names whose last sync failed, and that were neither
                   \* touched nor forwarded since
    sinceTouch,    \* name -> time since sync last recorded a touch of it
    settled,       \* name -> settled events forwarded since its last touch
    burstTouches,  \* name -> touches of the current burst (gaps < Duration)
    earlySettle,   \* a name was forwarded less than Duration after a touch
    kept           \* name -> settle passes that have kept it in the ledger
                   \* since its last touch, while it is not forwarded

debounceVars ==
    <<filenames, isTimerActive, timers, chSenders, watcherQ, dpc,
      oldFilenames, sending, syncer, working, failed, sinceTouch, settled,
      burstTouches, earlySettle, kept>>

\* The variables of sync, the timers and the watcher, without syncInternal.
debouncerVars ==
    <<filenames, isTimerActive, timers, chSenders, watcherQ, dpc,
      oldFilenames, sending, failed, sinceTouch, settled, burstTouches,
      earlySettle, kept>>

VARIABLES
    albumPictures, \* syncInternal: albumPictures, directory or key -> key
    tagPicture,    \* syncInternal: m.Picture(), "nil" or the picture data
    hash,          \* syncInternal: hash
    pictureHash,   \* syncInternal: pictureHash
    metadata,      \* syncInternal: metadata, as handed to updateMetadata
    updateResult,  \* what updateMetadata returned: "none", "nil" or "err"
    received,      \* number of names received from chInternal
    causes,        \* what went wrong or was skipped for the current name
    prevCauses,    \* causes of the name received before the current one
    uploads,       \* keys for which uploadPicture has returned nil
    uploadedDup    \* uploadPicture was called with a key of albumPictures

syncerVars ==
    <<albumPictures, tagPicture, hash, pictureHash, metadata, updateResult,
      received, causes, prevCauses, uploads, uploadedDup>>

VARIABLES
    upos,          \* uploadContents: "wait", "parse", "client", "loop" or
                   \* "callback"
    message,       \* the pubsub message the callback was called with
    entryIdx,      \* uploadContentsInternal: entries already uploaded
    uploadErr,     \* what uploadContentsInternal returns: "nil" or "err"
    acked,         \* m.Ack() was called for message
    objects,       \* keys of the objects written to the piece bucket
    messages       \* number of messages received

uploadVars ==
    <<upos, message, entryIdx, uploadErr, acked, objects, messages>>

VARIABLES
    ttext,         \* the text handed to generateWordsForIndex (code points)
    tnormalized,   \* the bytes of benten.Normalize(text)
    twords,        \* the words generateWordsForIndex has added
    tdone,         \* generateWordsForIndex has returned
    tlookup,       \* what list made of the phrase text, or NoLookup
    tagain,        \* Normalize(Normalize(text)), or NotCalled
    tupper,        \* Normalize(strings.ToUpper(text)), or NotCalled
    tphrase        \* the search of list, when it is not the text

tokenVars ==
    <<ttext, tnormalized, twords, tdone, tlookup, tagain, tupper, tphrase>>

vars ==
    <<storeVars, listVars, debounceVars, syncerVars, uploadVars, tokenVars>>

\* What the steps of one part of the program leave alone.
exceptStore == <<listVars, debounceVars, syncerVars, uploadVars, tokenVars>>
exceptList == <<storeVars, debounceVars, syncerVars, uploadVars, tokenVars>>
exceptDebounce == <<storeVars, listVars, syncerVars, uploadVars, tokenVars>>
exceptSyncer == <<storeVars, listVars, uploadVars, tokenVars>>
exceptUpload ==
    <<storeVars, listVars, debounceVars, syncerVars, tokenVars>>
exceptToken ==
    <<storeVars, listVars, debounceVars, syncerVars, uploadVars>>

InitDebounce ==
    /\ filenames = <<>>
    /\ isTimerActive = FALSE
    /\ timers = <<>>
    /\ chSenders = 0
    /\ watcherQ = <<>>
    /\ dpc = "recv"
    /\ oldFilenames = <<>>
    /\ sending = ""
    /\ syncer = "init"
    /\ working = <<>>
    /\ failed = {}
    /\ sinceTouch = [p \in Paths |-> Duration]
    /\ settled = [p \in Paths |-> 0]
    /\ burstTouches = [p \in Paths |-> 0]
    /\ earlySettle = FALSE
    /\ kept = [p \in Paths |-> 0]

\* FreshLedger that keeps the entries of the old ledger.
FreshLedgerKeepsOld == filenames

\* The ledger a settle pass starts with: filenames = make(map...).
FreshLedger == <<>>

\* The process is alive: no goroutine has panicked.
Running == syncer # "panicked"

\* CanReceive for a channel with a buffer, or a worker per name.
CanReceiveWheneverAlive(s) == s \in {"idle", "busy"}

\* chInternal has no buffer, so chInternal <- name completes only while
\* syncInternal waits in filename := <-ch.
CanReceive(s) == s = "idle"

\* m with the entry for name set to v (a Go map assignment).
MapPut(m, name, v) ==
    [n \in (DOMAIN m) \cup {name} |-> IF n = name THEN v ELSE m[n]]

\* MapDelete that leaves the entry in place.
MapDeleteNothing(m, name) == m

\* m without the entry for name.
MapDelete(m, name) == [n \in (DOMAIN m) \ {name} |-> m[n]]

\* IsSettled with the comparison turned around.
IsSettledReversed(age) == age <= Duration

\* IsSettled with a strict comparison.
IsSettledStrict(age) == age > Duration

\* The test of the settle pass: time.Now().Sub(timestamp) >= duration.
IsSettled(age) == age >= Duration

\* NeedsTimer without the test of isTimerActive.
NeedsTimerIgnoringActive(fn, active) == Cardinality(DOMAIN fn) > 0

\* NeedsTimer without the test of len(filenames).
NeedsTimerIgnoringLedger(fn, active) == ~active

\* The condition under which the loop of sync starts a timer.
NeedsTimer(fn, active) == Cardinality(DOMAIN fn) > 0 /\ ~active

\* ScheduleTimer with a timer of two seconds.
ScheduleTimerShort(fn, active) ==
    IF NeedsTimer(fn, active)
    THEN /\ timers' = Append(timers, 2)
         /\ isTimerActive' = TRUE
    ELSE /\ timers' = timers
         /\ isTimerActive' = active

\* The tail of one iteration of the loop of sync: a timer for 2 * duration
\* is started when the ledger fn is not empty and no timer is active.
ScheduleTimer(fn, active) ==
    IF NeedsTimer(fn, active)
    THEN /\ timers' = Append(timers, Duration * 2)
         /\ isTimerActive' = TRUE
    ELSE /\ timers' = timers
         /\ isTimerActive' = active

\* The watcher goroutine of main receives a Write event for p and blocks in
\* ch <- event.Name behind the events already waiting.
FsWrite(p) ==
    /\ Running
    /\ Len(watcherQ) < MaxQueue
    /\ UNCHANGED <<working, failed>>
    /\ watcherQ' = Append(watcherQ, p)
    /\ UNCHANGED <<filenames, isTimerActive, timers, chSenders, dpc,
                   oldFilenames, sending, syncer, sinceTouch, settled,
                   burstTouches, earlySettle, kept>>

\* One second passes.
Tick ==
    /\ Running
    /\ UNCHANGED <<working, failed>>
    /\ filenames' = [n \in DOMAIN filenames |-> Inc(filenames[n])]
    /\ oldFilenames' = [n \in DOMAIN oldFilenames |-> Inc(oldFilenames[n])]
    /\ sinceTouch' = [p \in Paths |-> Inc(sinceTouch[p])]
    /\ timers' = [i \in DOMAIN timers |-> Dec(timers[i])]
    /\ UNCHANGED <<isTimerActive, chSenders, watcherQ, dpc, sending, syncer,
                   settled, burstTouches, earlySettle, kept>>

\* A timer started by time.AfterFunc fires: its callback blocks in ch <- "".
TimerFire ==
    /\ Running
    /\ UNCHANGED <<working, failed>>
    /\ \E i \in DOMAIN timers :
         /\ timers[i] = 0
         /\ timers' = SubSeq(timers, 1, i - 1) \o SubSeq(timers, i + 1, Len(timers))
    /\ chSenders' = chSenders + 1
    /\ UNCHANGED <<filenames, isTimerActive, watcherQ, dpc, oldFilenames,
                   sending, syncer, sinceTouch, settled, burstTouches,
                   earlySettle, kept>>

\* sync receives a file name from ch: the touch is recorded with the
\* current time and the timer is started if needed.
Touch ==
    /\ Running
    /\ dpc = "recv" /\ watcherQ # <<>>
    /\ UNCHANGED working
    /\ LET filename == Head(watcherQ)
       IN  /\ filenames' = MapPut(filenames, filename, 0)
           /\ failed' = failed \ {filename}
           /\ ScheduleTimer(MapPut(filenames, filename, 0), isTimerActive)
           /\ sinceTouch' = [sinceTouch EXCEPT ![filename] = 0]
           /\ settled' = [settled EXCEPT ![filename] = 0]
           /\ kept' = [kept EXCEPT ![filename] = 0]
           /\ burstTouches' = [burstTouches EXCEPT ![filename] =
                  IF sinceTouch[filename] < Duration
                  THEN (IF @ < MaxBurst THEN @ + 1 ELSE @)
                  ELSE 1]
    /\ watcherQ' = Tail(watcherQ)
    /\ UNCHANGED <<chSenders, dpc, oldFilenames, sending, syncer,
                   earlySettle>>

\* sync receives "" from a timer callback: the settle pass begins.
SettleBegin ==
    /\ Running
    /\ dpc = "recv" /\ chSenders > 0
    /\ UNCHANGED <<working, failed>>
    /\ chSenders' = chSenders - 1
    /\ isTimerActive' = FALSE
    /\ oldFilenames' = filenames
    /\ filenames' = FreshLedger
    /\ dpc' = "pass"
    /\ UNCHANGED <<timers, watcherQ, sending, syncer, sinceTouch, settled,
                   burstTouches, earlySettle, kept>>

\* One iteration of the range loop of the settle pass over oldFilenames: a
\* settled name is sent on chInternal, any other entry is put back with its
\* timestamp.
SettleStep ==
    /\ Running
    /\ dpc = "pass"
    /\ UNCHANGED <<working, failed>>
    /\ \E name \in DOMAIN oldFilenames :
         /\ oldFilenames' = MapDelete(oldFilenames, name)
         /\ IF IsSettled(oldFilenames[name])
            THEN /\ sending' = name
                 /\ dpc' = "send"
                 /\ kept' = [kept EXCEPT ![name] = 0]
                 /\ UNCHANGED filenames
            ELSE /\ filenames' = MapPut(filenames, name, oldFilenames[name])
                 /\ kept' = [kept EXCEPT ![name] = IF @ < 2 THEN @ + 1 ELSE @]
                 /\ UNCHANGED <<sending, dpc>>
    /\ UNCHANGED <<isTimerActive, timers, chSenders, watcherQ, syncer,
                   sinceTouch, settled, burstTouches, earlySettle>>

\* chInternal <- name completes: syncInternal, waiting in <-ch, receives the
\* settled name and starts to process it.
Deliver ==
    /\ dpc = "send" /\ CanReceive(syncer)
    /\ syncer' = "busy"
    /\ working' = Append(working, sending)
    /\ failed' = failed \ {sending}
    /\ dpc' = "pass"
    /\ sending' = ""
    /\ settled' = [settled EXCEPT ![sending] = IF @ < 2 THEN @ + 1 ELSE @]
    /\ earlySettle' = (earlySettle \/ sinceTouch[sending] < Duration)
    /\ UNCHANGED <<filenames, isTimerActive, timers, chSenders, watcherQ,
                   oldFilenames, sinceTouch, burstTouches, kept>>

\* The range loop of the settle pass is over: the timer is started again if
\* names are left, and sync returns to <-ch.
SettleEnd ==
    /\ Running
    /\ dpc = "pass" /\ DOMAIN oldFilenames = {}
    /\ UNCHANGED <<working, failed>>
    /\ ScheduleTimer(filenames, isTimerActive)
    /\ dpc' = "recv"
    /\ UNCHANGED <<filenames, chSenders, watcherQ, oldFilenames, sending,
                   syncer, sinceTouch, settled, burstTouches, earlySettle,
                   kept>>

\* syncInternal has created its two clients and enters its loop.
SyncInternalStart ==
    /\ syncer = "init"
    /\ syncer' = "idle"
    /\ UNCHANGED <<filenames, isTimerActive, timers, chSenders, watcherQ,
                   dpc, oldFilenames, sending, working, failed, sinceTouch,
                   settled, burstTouches, earlySettle, kept>>

\* datastore.NewClient or storage.NewClient fails: syncInternal logs and
\* returns, and nothing receives from chInternal any more.
SyncInternalReturn ==
    /\ syncer = "init"
    /\ syncer' = "returned"
    /\ UNCHANGED <<filenames, isTimerActive, timers, chSenders, watcherQ,
                   dpc, oldFilenames, sending, working, failed, sinceTouch,
                   settled, burstTouches, earlySettle, kept>>

\* syncInternal finishes the file it was processing (the file is synced, or
\* it is a directory and is skipped) and returns to <-ch.
SyncInternalDone ==
    /\ syncer = "busy"
    /\ syncer' = "idle"
    /\ working' = Tail(working)
    /\ failed' = failed \ {Head(working)}
    /\ UNCHANGED <<filenames, isTimerActive, timers, chSenders, watcherQ,
                   dpc, oldFilenames, sending, sinceTouch, settled,
                   burstTouches, earlySettle, kept>>

\* The sync of the file fails (os.Open, tag.ReadFrom, tag.Sum or
\* updateMetadata returns an error): syncInternal logs and returns to <-ch.
SyncInternalFail ==
    /\ syncer = "busy"
    /\ syncer' = "idle"
    /\ working' = Tail(working)
    /\ failed' = failed \cup {Head(working)}
    /\ UNCHANGED <<filenames, isTimerActive, timers, chSenders, watcherQ,
                   dpc, oldFilenames, sending, sinceTouch, settled,
                   burstTouches, earlySettle, kept>>

\* os.Stat fails: fi is nil and fi.IsDir() panics; the panic is not
\* recovered, so the process exits with all its goroutines.
SyncInternalPanic ==
    /\ syncer = "busy"
    /\ syncer' = "panicked"
    /\ UNCHANGED <<filenames, isTimerActive, timers, chSenders, watcherQ,
                   dpc, oldFilenames, sending, working, failed, sinceTouch,
                   settled, burstTouches, earlySettle, kept>>

(***************************************************************************)
(* syncInternal, one file at a time                                        *)
(***************************************************************************)

\* filepath.Dir(file.Name()): each of the two paths lies in its own
\* directory.
Dir(path) == IF path = "p1" THEN "dA" ELSE "dB"

\* The picture data a tag or a directory can hold, and the content hashes
\* tag.Sum can return.
Pictures == {"art1", "art2"}
Hashes == {"h1", "h2"}

\* base64.StdEncoding.EncodeToString(sha256.Sum256(data)): equal data give
\* equal keys, different data give different keys.
PictureKey(data) == IF data = "art1" THEN "k1" ELSE "k2"

\* NewMetadata, restricted to the three fields that do not come from the
\* tag.
NewMetadata(picture, h, path) ==
    [Picture |-> picture, Hash |-> h, Path |-> path]

NoPiece == NewMetadata("", "", "")

InitSyncer ==
    /\ albumPictures = <<>>
    /\ tagPicture = "nil"
    /\ hash = ""
    /\ pictureHash = ""
    /\ metadata = NoPiece
    /\ updateResult = "none"
    /\ received = 0
    /\ causes = {}
    /\ prevCauses = {}
    /\ uploads = {}
    /\ uploadedDup = FALSE

\* Continue that leaves the loop.
ContinueLeavesLoop == "returned"

\* continue: syncInternal goes back to filename := <-ch.
Continue == "idle"

\* The failures C14 lists.
ListedFailures == {"tag", "sum", "art", "upload", "update"}

\* syncInternal receives a settled name from chInternal.
ReceiveSettled(name) ==
    /\ CanReceive(syncer) /\ received < MaxFiles
    /\ syncer' = "stat"
    /\ working' = <<name>>
    /\ received' = received + 1
    /\ prevCauses' = causes
    /\ causes' = {}
    /\ tagPicture' = "nil"
    /\ hash' = ""
    /\ pictureHash' = ""
    /\ metadata' = NoPiece
    /\ updateResult' = "none"
    /\ UNCHANGED <<albumPictures, uploads, uploadedDup, debouncerVars>>

\* os.Stat and fi.IsDir(): a directory is skipped; after an error fi is nil
\* and fi.IsDir() panics, which ends the process.
Stat(r) ==
    /\ syncer = "stat"
    /\ CASE r = "err" -> /\ syncer' = "panicked"
                         /\ causes' = causes \cup {"stat"}
                         /\ UNCHANGED working
         [] r = "dir" -> /\ syncer' = Continue
                         /\ causes' = causes \cup {"dir"}
                         /\ working' = <<>>
         [] OTHER     -> /\ syncer' = "open"
                         /\ UNCHANGED <<causes, working>>
    /\ UNCHANGED <<albumPictures, tagPicture, hash, pictureHash, metadata,
                   updateResult, received, prevCauses, uploads, uploadedDup,
                   debouncerVars>>

\* os.Open.
Open(ok) ==
    /\ syncer = "open"
    /\ IF ok
       THEN /\ syncer' = "read"
            /\ UNCHANGED <<causes, working>>
       ELSE /\ syncer' = Continue
            /\ causes' = causes \cup {"open"}
            /\ working' = <<>>
    /\ UNCHANGED <<albumPictures, tagPicture, hash, pictureHash, metadata,
                   updateResult, received, prevCauses, uploads, uploadedDup,
                   debouncerVars>>

\* tag.ReadFrom: r is "err", or what m.Picture() will return.
ReadFrom(r) ==
    /\ syncer = "read"
    /\ IF r = "err"
       THEN /\ syncer' = Continue
            /\ causes' = causes \cup {"tag"}
            /\ working' = <<>>
            /\ UNCHANGED tagPicture
       ELSE /\ syncer' = "sum"
            /\ tagPicture' = r
            /\ UNCHANGED <<causes, working>>
    /\ UNCHANGED <<albumPictures, hash, pictureHash, metadata, updateResult,
                   received, prevCauses, uploads, uploadedDup, debouncerVars>>

\* tag.Sum: r is "err" or the content hash.
Sum(r) ==
    /\ syncer = "sum"
    /\ IF r = "err"
       THEN /\ syncer' = Continue
            /\ causes' = causes \cup {"sum"}
            /\ working' = <<>>
            /\ UNCHANGED hash
       ELSE /\ syncer' = "picture"
            /\ hash' = r
            /\ UNCHANGED <<causes, working>>
    /\ UNCHANGED <<albumPictures, tagPicture, pictureHash, metadata,
                   updateResult, received, prevCauses, uploads, uploadedDup,
                   debouncerVars>>

\* Lines 333-364 of syncInternal for a file in directory dirname whose tag
\* holds tagPic, with the album pictures cache: dirArt is what
\* getAlbumArtFromDir returns ("err", "nil" or the picture data) and
\* uploadOK tells whether uploadPicture returns nil.  The result is the new
\* pictureHash, the new cache, the key uploadPicture was called with (""
\* when it was not called) and what was logged.
ResolvePicture(cache, tagPic, dirname, dirArt, uploadOK) ==
    IF tagPic = "nil"
    THEN IF dirname \in DOMAIN cache
         THEN [pictureHash |-> cache[dirname], albumPictures |-> cache,
               upload |-> "", logged |-> {}]
         ELSE IF dirArt \in Pictures
              THEN LET key == PictureKey(dirArt)
                   IN  [pictureHash |-> key,
                        albumPictures |->
                            IF uploadOK
                            THEN MapPut(MapPut(cache, dirname, key), key, key)
                            ELSE cache,
                        upload |-> key,
                        logged |-> IF uploadOK THEN {} ELSE {"upload"}]
              ELSE [pictureHash |-> "", albumPictures |-> cache,
                    upload |-> "",
                    logged |-> IF dirArt = "err" THEN {"art"} ELSE {}]
    ELSE LET key == PictureKey(tagPic)
         IN  IF key \in DOMAIN cache
             THEN [pictureHash |-> key, albumPictures |-> cache,
                   upload |-> "", logged |-> {}]
             ELSE [pictureHash |-> key,
                   albumPictures |->
                       IF uploadOK THEN MapPut(cache, key, key) ELSE cache,
                   upload |-> key,
                   logged |-> IF uploadOK THEN {} ELSE {"upload"}]

\* syncInternal resolves the picture of the file it is processing.
Picture(dirArt, uploadOK) ==
    /\ syncer = "picture"
    /\ LET r == ResolvePicture(albumPictures, tagPicture, Dir(Head(working)),
                               dirArt, uploadOK)
       IN  /\ pictureHash' = r.pictureHash
           /\ albumPictures' = r.albumPictures
           /\ causes' = causes \cup r.logged
           /\ uploads' = IF r.upload # "" /\ r.logged = {}
                         THEN uploads \cup {r.upload} ELSE uploads
           /\ uploadedDup' =
                  (uploadedDup \/ r.upload \in DOMAIN albumPictures)
    /\ syncer' = "update"
    /\ UNCHANGED <<working, tagPicture, hash, metadata, updateResult,
                   received, prevCauses, debouncerVars>>

\* metadata := benten.NewMetadata(...) and the call of updateMetadata, which
\* returns nil or an error; the loop starts over.
Update(ok) ==
    /\ syncer = "update"
    /\ metadata' = NewMetadata(pictureHash, hash, Head(working))
    /\ updateResult' = IF ok THEN "nil" ELSE "err"
    /\ causes' = IF ok THEN causes ELSE causes \cup {"update"}
    /\ syncer' = Continue
    /\ working' = <<>>
    /\ UNCHANGED <<albumPictures, tagPicture, hash, pictureHash, received,
                   prevCauses, uploads, uploadedDup, debouncerVars>>

(***************************************************************************)
(* uploadContents                                                          *)
(***************************************************************************)

\* Bounds of the model.
MaxMessages == 2
MaxBatch == 2

\* The {Path, Key} entries a message can hold.
Entries == {[Path |-> p, Key |-> k] : p \in Paths, k \in Hashes}

RECURSIVE SeqsUpTo(_, _)
\* The sequences over S of length at most n.
SeqsUpTo(S, n) ==
    IF n = 0 THEN {<<>>}
    ELSE LET shorter == SeqsUpTo(S, n - 1)
         IN  shorter \cup {Append(q, x) : q \in shorter, x \in S}

\* The messages of the subscription: Data either parses as a batch of
\* entries or does not parse.
Messages ==
    {[valid |-> TRUE, entries |-> b] : b \in SeqsUpTo(Entries, MaxBatch)}
        \cup {[valid |-> FALSE, entries |-> <<>>]}

InitUpload ==
    /\ upos = "wait"
    /\ message = [valid |-> FALSE, entries |-> <<>>]
    /\ entryIdx = 0
    /\ uploadErr = "nil"
    /\ acked = FALSE
    /\ objects = {}
    /\ messages = 0

\* uploadPiece: nil only if os.Open, io.Copy and writer.Close all succeed.
uploadPiece(openOK, copyOK, closeOK) ==
    IF ~openOK THEN "err"
    ELSE IF ~copyOK THEN "err"
    ELSE IF ~closeOK THEN "err"
    ELSE "nil"

\* ShouldAck that ignores the error.
ShouldAckAlways(err) == TRUE

\* The callback of sub.Receive: if err == nil { m.Ack() }.
ShouldAck(err) == err = "nil"

\* sub.Receive calls the callback with a message.
ReceiveMessage(m) ==
    /\ upos = "wait" /\ messages < MaxMessages
    /\ upos' = "parse"
    /\ message' = m
    /\ entryIdx' = 0
    /\ uploadErr' = "nil"
    /\ acked' = FALSE
    /\ messages' = messages + 1
    /\ UNCHANGED objects

\* json.Unmarshal and the test of len(entries).
Unmarshal ==
    /\ upos = "parse"
    /\ IF ~message.valid
       THEN upos' = "callback" /\ uploadErr' = "err"
       ELSE IF Len(message.entries) = 0
            THEN upos' = "callback" /\ uploadErr' = "nil"
            ELSE upos' = "client" /\ uploadErr' = uploadErr
    /\ UNCHANGED <<message, entryIdx, acked, objects, messages>>

\* storage.NewClient.
NewStorageClient(ok) ==
    /\ upos = "client"
    /\ IF ok
       THEN upos' = "loop" /\ uploadErr' = uploadErr
       ELSE upos' = "callback" /\ uploadErr' = "err"
    /\ UNCHANGED <<message, entryIdx, acked, objects, messages>>

\* One iteration of the loop over the entries: uploadPiece for the next
\* entry; the first error is returned, and nil after the last entry.
UploadEntry(openOK, copyOK, closeOK) ==
    /\ upos = "loop"
    /\ LET entry == message.entries[entryIdx + 1]
           err == uploadPiece(openOK, copyOK, closeOK)
       IN  IF err # "nil"
           THEN /\ upos' = "callback" /\ uploadErr' = err
                /\ UNCHANGED <<entryIdx, objects>>
           ELSE /\ entryIdx' = entryIdx + 1
                /\ objects' = objects \cup {entry.Key}
                /\ uploadErr' = "nil"
                /\ upos' = IF entryIdx + 1 = Len(message.entries)
                           THEN "callback" ELSE "loop"
    /\ UNCHANGED <<message, acked, messages>>

\* uploadContentsInternal has returned: the callback acknowledges the
\* message or not, and returns.
Callback ==
    /\ upos = "callback"
    /\ acked' = ShouldAck(uploadErr)
    /\ upos' = "wait"
    /\ UNCHANGED <<message, entryIdx, uploadErr, objects, messages>>

(***************************************************************************)
(* The tokenizer as a function of its input                                *)
(***************************************************************************)

\* Bounds of the model.
MaxTextLen == 4
MaxLetters == 2

\* The code points of the input texts: a, B, sharp s, A-acute and
\* HIRAGANA LETTER A and I (three bytes each in UTF-8).
Alphabet == {97, 66, 223, 193, 12354, 12356}

\* The code points of the short input texts: AE, dotless i, final sigma and
\* the fullwidth letters a and b (three bytes each in UTF-8).
Letters == {198, 305, 962, 65345, 65346}

\* norm.NFC.String("ÁÅÇÈñöûÆĲŒß"), the text of
\* TestGenerateWordsForIndexWithNormalization.
TestNormalization == <<193, 197, 199, 200, 241, 246, 251, 198, 306, 338, 223>>

\* "日本語", the text of TestGenerateWordsForIndexNonASCII.
TestNonASCII == <<26085, 26412, 35486>>

\* "日本語あ": four different characters of three bytes each.
TestFourWide == <<26085, 26412, 35486, 12354>>

Texts ==
    SeqsUpTo(Alphabet, MaxTextLen) \cup SeqsUpTo(Letters, MaxLetters)
        \cup {TestNormalization, TestNonASCII, TestFourWide}

\* Normalize has not been called.
NotCalled == <<-1>>

\* Bound of the model.
MaxBytes == 7

\* The bytes of the byte strings: a, b, and the first two bytes of
\* HIRAGANA LETTER A in UTF-8.
Bytes == {97, 98, 227, 129}

\* "abcdehdiaba", the text of TestGenerateWordsForIndexASCII.
TestASCII == <<97, 98, 99, 100, 101, 104, 100, 105, 97, 98, 97>>

ByteTexts == SeqsUpTo(Bytes, MaxBytes) \cup {TestASCII}

\* list has not looked at the text.
NoLookup == [status |-> -1, bytes |-> <<>>]

\* No text has been handed to the tokenizer.
InitToken ==
    /\ ttext = <<>>
    /\ tnormalized = <<>>
    /\ twords = {}
    /\ tdone = FALSE
    /\ tlookup = NoLookup
    /\ tagain = NotCalled
    /\ tupper = NotCalled
    /\ tphrase = <<>>

\* A call of generateWordsForIndex(text, words) with an empty words.
Tokenize ==
    /\ ~tdone
    /\ tnormalized' = UTF8(Normalize(ttext))
    /\ twords' = generateWordsForIndex(ttext)
    /\ tdone' = TRUE
    /\ UNCHANGED <<ttext, tlookup, tagain, tupper, tphrase>>

\* The length checks of list on the phrase text, and its choice of the
\* lookup gram.
Lookup ==
    /\ tlookup = NoLookup
    /\ tlookup' = LookupGram(UTF8(Normalize(ttext)))
    /\ UNCHANGED <<ttext, tnormalized, twords, tdone, tagain, tupper,
                   tphrase>>

\* Normalize called on what Normalize returned for ttext.
NormalizeAgain ==
    /\ tagain = NotCalled
    /\ tagain' = Normalize(Normalize(ttext))
    /\ UNCHANGED <<ttext, tnormalized, twords, tdone, tlookup, tupper,
                   tphrase>>

\* Normalize called on ttext in upper case.
NormalizeUpper ==
    /\ tupper = NotCalled
    /\ tupper' = Normalize(ToUpper(ttext))
    /\ UNCHANGED <<ttext, tnormalized, twords, tdone, tlookup, tagain,
                   tphrase>>

\* A call of generateWordsForIndexInternal(text, words) with the byte
\* string ttext and an empty words.
TokenizeBytes ==
    /\ ~tdone
    /\ tnormalized' = ttext
    /\ twords' = generateWordsForIndexInternal(ttext)
    /\ tdone' = TRUE
    /\ UNCHANGED <<ttext, tlookup, tagain, tupper, tphrase>>

\* Bound of the model.
MaxPrefilterBytes == 7

\* The bytes of the texts of SpecPrefilter: a, b and a non-ASCII byte.
PrefilterBytes == {97, 98, 227}

\* A text of PrefilterTexts is indexed, and a search that occurs in it is
\* looked up.
InitPrefilter ==
    /\ InitStore /\ InitList /\ InitDebounce /\ InitSyncer /\ InitUpload
    /\ ttext \in SeqsUpTo(PrefilterBytes, MaxPrefilterBytes)
    /\ tnormalized = <<>>
    /\ twords = {}
    /\ tdone = FALSE
    /\ tlookup = NoLookup
    /\ tagain = NotCalled
    /\ tupper = NotCalled
    /\ tphrase = <<>>

\* generateWordsForIndexInternal on the byte string ttext, and the length
\* checks of list on a search that is the substring ttext[i:j].
Prefilter(i, j) ==
    /\ ~tdone
    /\ tnormalized' = ttext
    /\ twords' = generateWordsForIndexInternal(ttext)
    /\ tdone' = TRUE
    /\ tphrase' = Slice(ttext, i, j)
    /\ tlookup' = LookupGram(Slice(ttext, i, j))
    /\ UNCHANGED <<ttext, tagain, tupper>>

\* The length checks of list on a search that is the byte string ttext.
LookupBytes ==
    /\ tlookup = NoLookup
    /\ tlookup' = LookupGram(ttext)
    /\ UNCHANGED <<ttext, tnormalized, twords, tdone, tagain, tupper,
                   tphrase>>

(***************************************************************************)
(* Specifications                                                          *)
(***************************************************************************)

Init ==
    /\ InitStore /\ InitList /\ InitDebounce /\ InitSyncer /\ InitUpload
    /\ InitToken

\* Any text of Texts is about to be handed to the tokenizer.
InitTokenize ==
    /\ InitStore /\ InitList /\ InitDebounce /\ InitSyncer /\ InitUpload
    /\ ttext \in Texts
    /\ tnormalized = <<>>
    /\ twords = {}
    /\ tdone = FALSE
    /\ tlookup = NoLookup
    /\ tagain = NotCalled
    /\ tupper = NotCalled
    /\ tphrase = <<>>

\* A byte string of ByteTexts is about to be tokenized.
InitGrams ==
    /\ InitStore /\ InitList /\ InitDebounce /\ InitSyncer /\ InitUpload
    /\ ttext \in ByteTexts
    /\ tnormalized = <<>>
    /\ twords = {}
    /\ tdone = FALSE
    /\ tlookup = NoLookup
    /\ tagain = NotCalled
    /\ tupper = NotCalled
    /\ tphrase = <<>>

\* updateMetadata and clearIndex do not depend on the order of the
\* identities, so here the datastore hands them out in ascending order.
NextStore ==
    \/ \E m \in Metadata :
           /\ UpdateMetadataCommit(m, Cardinality(allocated) + 1)
           /\ UNCHANGED exceptStore
    \/ UpdateMetadataAbort /\ UNCHANGED exceptStore
    \/ \E m \in Metadata :
           UpdateMetadataCommitFail(m) /\ UNCHANGED exceptStore
    \/ SpanPieceIndexCommit /\ UNCHANGED exceptStore
    \/ SpanPieceIndexFail /\ UNCHANGED exceptStore
    \/ ClearIndexBegin /\ UNCHANGED exceptStore
    \/ ClearIndexDelete /\ UNCHANGED exceptStore
    \/ ClearIndexReturn /\ UNCHANGED exceptStore

\* The datastore under one syncer process, restarted at most MaxClears
\* times with -clear-index.
SpecStore == Init /\ [][NextStore]_vars

\* list orders the index entries by Value, so here the datastore hands out
\* the identities in any order.
NextQuery ==
    \/ \E m \in Metadata, new \in PieceIDs :
           /\ syncs < MaxQuerySyncs
           /\ UpdateMetadataCommit(m, new)
           /\ UNCHANGED exceptStore
    \/ /\ syncs < MaxQuerySyncs
       /\ UpdateMetadataAbort
       /\ UNCHANGED exceptStore
    \/ \E m \in Metadata :
           /\ syncs < MaxQuerySyncs
           /\ UpdateMetadataCommitFail(m)
           /\ UNCHANGED exceptStore
    \/ SpanPieceIndexCommit /\ UNCHANGED exceptStore
    \/ SpanPieceIndexFail /\ UNCHANGED exceptStore
    \/ \E q \in Phrases, limit \in Limits :
           ListQuery(q, limit) /\ UNCHANGED exceptList
    \/ ListNext /\ UNCHANGED exceptList
    \/ ListRespond /\ UNCHANGED exceptList

\* The steps of NextQuery, with no step of a sync while a list request
\* runs.
NextSearch ==
    \/ \E m \in Metadata, new \in PieceIDs :
           /\ syncs < MaxQuerySyncs /\ lpc = "idle"
           /\ UpdateMetadataCommit(m, new)
           /\ UNCHANGED exceptStore
    \/ /\ syncs < MaxQuerySyncs /\ lpc = "idle"
       /\ UpdateMetadataAbort
       /\ UNCHANGED exceptStore
    \/ \E m \in Metadata :
           /\ syncs < MaxQuerySyncs /\ lpc = "idle"
           /\ UpdateMetadataCommitFail(m)
           /\ UNCHANGED exceptStore
    \/ lpc = "idle" /\ SpanPieceIndexCommit /\ UNCHANGED exceptStore
    \/ lpc = "idle" /\ SpanPieceIndexFail /\ UNCHANGED exceptStore
    \/ \E q \in Phrases, limit \in Limits :
           ListQuery(q, limit) /\ UNCHANGED exceptList
    \/ ListNext /\ UNCHANGED exceptList
    \/ ListRespond /\ UNCHANGED exceptList

\* The datastore under one syncer, for MaxQuerySyncs syncs, and list
\* requests that run while the datastore is not written to.
SpecSearch == Init /\ [][NextSearch]_vars

\* The datastore under one syncer, for MaxQuerySyncs syncs, and concurrent
\* list requests.
SpecQuery == Init /\ [][NextQuery]_vars

NextDebounce ==
    \/ \E p \in Paths : FsWrite(p) /\ UNCHANGED exceptDebounce
    \/ Tick /\ UNCHANGED exceptDebounce
    \/ TimerFire /\ UNCHANGED exceptDebounce
    \/ Touch /\ UNCHANGED exceptDebounce
    \/ SettleBegin /\ UNCHANGED exceptDebounce
    \/ SettleStep /\ UNCHANGED exceptDebounce
    \/ Deliver /\ UNCHANGED exceptDebounce
    \/ SettleEnd /\ UNCHANGED exceptDebounce
    \/ SyncInternalStart /\ UNCHANGED exceptDebounce
    \/ SyncInternalReturn /\ UNCHANGED exceptDebounce
    \/ SyncInternalDone /\ UNCHANGED exceptDebounce
    \/ SyncInternalFail /\ UNCHANGED exceptDebounce
    \/ SyncInternalPanic /\ UNCHANGED exceptDebounce

NextSyncer ==
    \/ SyncInternalStart /\ UNCHANGED exceptDebounce
    \/ SyncInternalReturn /\ UNCHANGED exceptDebounce
    \/ \E name \in Paths :
           ReceiveSettled(name) /\ UNCHANGED exceptSyncer
    \/ \E r \in {"file", "dir", "err"} :
           Stat(r) /\ UNCHANGED exceptSyncer
    \/ \E ok \in BOOLEAN : Open(ok) /\ UNCHANGED exceptSyncer
    \/ \E r \in {"err", "nil"} \cup Pictures :
           ReadFrom(r) /\ UNCHANGED exceptSyncer
    \/ \E r \in {"err"} \cup Hashes :
           Sum(r) /\ UNCHANGED exceptSyncer
    \/ \E dirArt \in {"err", "nil"} \cup Pictures, uploadOK \in BOOLEAN :
           Picture(dirArt, uploadOK) /\ UNCHANGED exceptSyncer
    \/ \E ok \in BOOLEAN : Update(ok) /\ UNCHANGED exceptSyncer

\* syncInternal alone, fed with up to MaxFiles settled names.
SpecSyncer == Init /\ [][NextSyncer]_vars

NextUpload ==
    \/ \E m \in Messages : ReceiveMessage(m) /\ UNCHANGED exceptUpload
    \/ Unmarshal /\ UNCHANGED exceptUpload
    \/ \E ok \in BOOLEAN : NewStorageClient(ok) /\ UNCHANGED exceptUpload
    \/ \E openOK \in BOOLEAN, copyOK \in BOOLEAN, closeOK \in BOOLEAN :
           UploadEntry(openOK, copyOK, closeOK) /\ UNCHANGED exceptUpload
    \/ Callback /\ UNCHANGED exceptUpload

\* The upload worker, for MaxMessages messages of at most MaxBatch entries.
SpecUpload == Init /\ [][NextUpload]_vars

NextTokenize ==
    \/ Tokenize /\ UNCHANGED exceptToken
    \/ Lookup /\ UNCHANGED exceptToken
    \/ NormalizeAgain /\ UNCHANGED exceptToken
    \/ NormalizeUpper /\ UNCHANGED exceptToken

\* generateWordsForIndex on every text of Texts.
SpecTokenize == InitTokenize /\ [][NextTokenize]_vars

NextPrefilter ==
    \E i \in 0..Len(ttext), j \in 0..Len(ttext) :
        i < j /\ Prefilter(i, j) /\ UNCHANGED exceptToken

\* The tokenizer on a byte string and list on a search that occurs in it.
SpecPrefilter == InitPrefilter /\ [][NextPrefilter]_vars

NextGrams ==
    \/ TokenizeBytes /\ UNCHANGED exceptToken
    \/ LookupBytes /\ UNCHANGED exceptToken

\* generateWordsForIndexInternal and the checks of list on every byte
\* string of ByteTexts.
SpecGrams == InitGrams /\ [][NextGrams]_vars

\* The debouncer with its timer, the watcher and the synchronizer worker.
SpecDebounce == Init /\ [][NextDebounce]_vars

\* Time passes, a timer that is due fires, and sync and syncInternal, each a
\* goroutine, take their next step when they can; the watcher is free to
\* see no further event.
FairDebounce ==
    /\ WF_vars(Tick /\ UNCHANGED exceptDebounce)
    /\ WF_vars(TimerFire /\ UNCHANGED exceptDebounce)
    /\ WF_vars(Touch /\ UNCHANGED exceptDebounce)
    /\ WF_vars(SettleBegin /\ UNCHANGED exceptDebounce)
    /\ WF_vars(SettleStep /\ UNCHANGED exceptDebounce)
    /\ WF_vars(Deliver /\ UNCHANGED exceptDebounce)
    /\ WF_vars(SettleEnd /\ UNCHANGED exceptDebounce)
    /\ WF_vars((SyncInternalStart \/ SyncInternalReturn)
                   /\ UNCHANGED exceptDebounce)
    /\ WF_vars((SyncInternalDone \/ SyncInternalFail \/ SyncInternalPanic)
                   /\ UNCHANGED exceptDebounce)

\* The files written to in the runs of SpecSettle.
SettlePaths == {"p1"}

\* The debouncer with a watcher that sees the Write events of one file.
NextSettle ==
    \/ \E p \in SettlePaths : FsWrite(p) /\ UNCHANGED exceptDebounce
    \/ Tick /\ UNCHANGED exceptDebounce
    \/ TimerFire /\ UNCHANGED exceptDebounce
    \/ Touch /\ UNCHANGED exceptDebounce
    \/ SettleBegin /\ UNCHANGED exceptDebounce
    \/ SettleStep /\ UNCHANGED exceptDebounce
    \/ Deliver /\ UNCHANGED exceptDebounce
    \/ SettleEnd /\ UNCHANGED exceptDebounce
    \/ SyncInternalStart /\ UNCHANGED exceptDebounce
    \/ SyncInternalReturn /\ UNCHANGED exceptDebounce
    \/ SyncInternalDone /\ UNCHANGED exceptDebounce
    \/ SyncInternalFail /\ UNCHANGED exceptDebounce
    \/ SyncInternalPanic /\ UNCHANGED exceptDebounce

\* The debouncer under fair scheduling, for the Write events of one file.
SpecSettle == Init /\ [][NextSettle]_vars /\ FairDebounce

(***************************************************************************)
(* Properties of the datastore                                             *)
(***************************************************************************)

\* The last updateMetadata returned nil and none of its steps failed.
SyncSucceeded == upc = "idle" /\ result = "nil" /\ ~stepFailed

\* The Keys of the PieceIndex entities whose Value is the Piece k.
IndexKeysOf(k) == {e.Key : e \in IndexQueryByValue(index, KeyValue(k))}

\* C1: in every state of the datastore, also between the two commits of a
\* sync and whatever steps failed, at most one Piece is stored for a Hash
\* and at most one for a Path.
C1_OnePiecePerHashAndPath ==
    \A k1, k2 \in DOMAIN pieces :
        (pieces[k1].Hash = pieces[k2].Hash \/ pieces[k1].Path = pieces[k2].Path)
            => k1 = k2

\* A sync has retired two Pieces, one sharing its Hash and one its Path.
C1_Witness ==
    /\ upc = "idle"
    /\ Cardinality(DOMAIN retired) = 2
    /\ Cardinality(DOMAIN pieces) = 1

C3_RetiredIndexDeleted ==
    SyncSucceeded =>
        \A k \in DOMAIN retired : IndexQueryByValue(index, KeyValue(k)) = {}

\* C4: when a step of updateMetadata failed, the stored Pieces and index
\* entries are what they were before that sync began.
C4_AllOrNothing == (upc = "idle" /\ stepFailed) => ~storeChanged

\* C5: after the sync of a file and then of a byte-identical file at another
\* path, starting from the empty store, the only Piece stored is the second
\* one and every index entry references it.
C5_CopyLeavesOnePiece ==
    ( /\ SyncSucceeded
      /\ syncs = 2 /\ clears = 0
      /\ DOMAIN retired # {}
      /\ \A k \in DOMAIN retired :
             retired[k].Hash = cur.m.Hash /\ retired[k].Path # cur.m.Path )
        => /\ DOMAIN pieces = {cur.key.id}
           /\ \A e \in BagToSet(index) : e.Value = cur.key

\* C6: a response of list never holds two Pieces of the same Path with
\* different tag values, under every interleaving of the index query and
\* the fetches of list with the commits of updateMetadata.
C6_NoOldAndNewInResponse ==
    response.status = 200 =>
        \A i, j \in DOMAIN response.pieces :
            response.pieces[i].Path = response.pieces[j].Path
                => response.pieces[i].Tags = response.pieces[j].Tags

\* list has answered with the old tag values of a Path whose Piece a sync
\* replaced, with new tag values, while the request was running.
C6_Witness ==
    /\ response.status = 200
    /\ \E i \in DOMAIN response.pieces : \E k \in DOMAIN pieces :
           /\ pieces[k].Path = response.pieces[i].Path
           /\ pieces[k].Tags # response.pieces[i].Tags
           /\ IndexKeysOf(k) # {}

(***************************************************************************)
(* Properties of the debouncer                                             *)
(***************************************************************************)

\* The names that are in the ledger or on their way through a settle pass.
Pending == (DOMAIN filenames) \cup (DOMAIN oldFilenames) \cup ({sending} \ {""})

\* Timers started and not yet handled by sync.
Outstanding == Len(timers) + chSenders

\* C7: after the touches of a burst, and until the next touch, a name is
\* forwarded at most once, never less than Duration after its last touch,
\* and it stays pending until it has been forwarded.
C7_OneSettledEventPerBurst ==
    /\ ~earlySettle
    /\ \A p \in Paths :
         /\ settled[p] <= 1
         /\ (burstTouches[p] > 0 /\ settled[p] = 0) => p \in Pending
         /\ settled[p] = 1 => p \notin Pending

\* A name touched three times in one burst has been forwarded once.
C7_Witness == \E p \in Paths : burstTouches[p] = 3 /\ settled[p] = 1

\* One iteration of the settle pass, as C8 states it: the visited entry is
\* forwarded and dropped from the ledger when its timestamp is at least
\* Duration old, and kept with the same timestamp otherwise; the other
\* entries of the ledger are left alone.
SettlePartitionStep ==
    (dpc = "pass" /\ DOMAIN oldFilenames' # DOMAIN oldFilenames) =>
        /\ Cardinality((DOMAIN oldFilenames) \ (DOMAIN oldFilenames')) = 1
        /\ \A name \in (DOMAIN oldFilenames) \ (DOMAIN oldFilenames') :
             IF oldFilenames[name] >= Duration
             THEN /\ dpc' = "send" /\ sending' = name
                  /\ filenames' = filenames
             ELSE /\ dpc' = "pass" /\ sending' = sending
                  /\ filenames' = MapPut(filenames, name, oldFilenames[name])
        /\ (DOMAIN filenames') \cap (DOMAIN oldFilenames') = {}

\* C8: every step of a settle pass partitions the ledger as stated.
C8_SettlePassPartitions == [][SettlePartitionStep]_vars

\* In one pass a name has been kept and another one is being forwarded.
C8_Witness == dpc = "send" /\ DOMAIN filenames # {}

\* C9: at most one settle-timer is outstanding, isTimerActive tells whether
\* one is, and a touch starts one for 2 * Duration exactly when none is
\* outstanding.
C9_AtMostOneTimer ==
    /\ [](Outstanding <= 1 /\ (isTimerActive <=> Outstanding = 1))
    /\ [][(dpc = "recv" /\ watcherQ' # watcherQ /\ Len(watcherQ') < Len(watcherQ))
            => IF isTimerActive THEN timers' = timers
               ELSE timers' = <<Duration * 2>>]_vars

\* A touch arrived while a timer was outstanding and started none.
C9_Witness ==
    /\ Outstanding = 1
    /\ \E p \in DOMAIN filenames : filenames[p] = 0
    /\ Len(timers) = 1 /\ timers[1] < Duration * 2

\* C10: whenever sync waits for the next event, a settle-timer is
\* outstanding iff the ledger is not empty.
C10_TimerIffLedgerNotEmpty ==
    dpc = "recv" => (Outstanding = 1 <=> DOMAIN filenames # {})

\* A settle pass has kept a name and started the next timer.
C10_Witness ==
    /\ dpc = "recv"
    /\ timers = <<Duration * 2>>
    /\ \E p \in DOMAIN filenames : filenames[p] > 0

\* C11: every settled event forwarded for a name follows a touch of that
\* name recorded after the previous settled event for it, so one touch
\* never produces two settled events.
C11_TouchBetweenSettledEvents ==
    [][\A p \in Paths :
         (dpc = "send" /\ dpc' = "pass" /\ sending = p)
             => (settled[p] = 0 /\ burstTouches[p] > 0)]_vars

\* The second settled event of a name waits at chInternal while the first
\* one is still in process: the name was touched again in between.
C11_Witness ==
    \E p \in Paths : working = <<p>> /\ sending = p /\ settled[p] = 0

\* C12: at most one settled name is in process at any time.
C12_OneSyncAtATime == Len(working) <= 1

\* A second settled name waits at chInternal while the first is in process.
C12_Witness ==
    /\ syncer = "busy" /\ Len(working) = 1
    /\ dpc = "send" /\ sending \notin Range(working)

\* C13: a settle pass is never blocked in chInternal <- name with nothing
\* left to receive from chInternal.  (No step changes syncer once it is
\* "returned", so a state violating this stays in the pass forever.)
C13_PassNeverStuck == ~(dpc = "send" /\ syncer = "returned")

\* C18: a name whose sync failed, and which has not been touched since it
\* was forwarded, is neither in the ledger, nor part of a running settle
\* pass, nor in process again.
C18_FailedSyncNotRetried ==
    \A p \in failed :
        settled[p] >= 1 => (p \notin Pending /\ p \notin Range(working))

\* After a failed sync everything is at rest: the ledger is empty and no
\* timer is outstanding.
C18_Witness ==
    /\ \E p \in failed : settled[p] = 1
    /\ dpc = "recv" /\ syncer = "idle"
    /\ filenames = <<>> /\ Outstanding = 0 /\ watcherQ = <<>>

\* C14: after a failure of tag parsing, of the content hash or of
\* updateMetadata the worker is back at the receive of the next name; after
\* a failure of the album-art lookup or upload it goes on with the same
\* file; and none of these failures makes the worker return or panic.
C14_FailureKeepsWorker ==
    /\ causes \cap {"tag", "sum", "update"} # {}
           => (syncer = "idle" /\ working = <<>>)
    /\ causes \cap {"art", "upload"} # {} => syncer \in {"update", "idle"}
    /\ causes \cap ListedFailures # {} => Running
    /\ prevCauses \cap ListedFailures # {} => syncer # "returned"

\* The picture upload and the transaction failed for one name, and the
\* name received after it has been synced.
C14_Witness ==
    /\ prevCauses = {"upload", "update"}
    /\ syncer = "idle" /\ updateResult = "nil" /\ causes = {}

\* C15: a name that is a directory, or that cannot be stat'ed or opened, is
\* skipped: nothing is handed to updateMetadata and the worker is back at
\* the receive of the next name.
C15_UnreadableSkipped ==
    causes \cap {"dir", "stat", "open"} # {}
        => (syncer = "idle" /\ updateResult = "none" /\ metadata = NoPiece)

\* C16: when the upload of the picture failed, the metadata handed to
\* updateMetadata has an empty Picture.
C16_FailedUploadMeansNoPicture ==
    ("upload" \in causes /\ updateResult # "none") => metadata.Picture = ""

\* C17: uploadPicture is never called with a key that is in albumPictures.
C17_NoUploadOfCachedHash == ~uploadedDup

\* C19: a message is acknowledged only if it parsed, uploadContentsInternal
\* returned nil and every entry of its batch was uploaded; once the callback
\* has returned, a message with an empty batch is acknowledged, and a
\* message that did not parse or whose uploads are not all done is not.
C19_AckOnlyAfterUpload ==
    /\ acked => /\ message.valid /\ uploadErr = "nil"
                /\ entryIdx = Len(message.entries)
                /\ \A i \in 1..Len(message.entries) :
                       message.entries[i].Key \in objects
    /\ (upos = "wait" /\ messages > 0) =>
           /\ (message.valid /\ message.entries = <<>>) => acked
           /\ (~message.valid \/ entryIdx < Len(message.entries)) => ~acked

\* A batch of two entries has been uploaded and acknowledged after a
\* message that was left unacknowledged.
C19_Witness ==
    /\ acked /\ Len(message.entries) = 2 /\ messages = 2
    /\ Cardinality(objects) = 2

\* C20: a text whose normalized form has fewer than GramSizeForAscii bytes,
\* and so every ASCII text of fewer than GramSizeForAscii characters, gives
\* no words.
C20_ShortTextNoGrams ==
    tdone =>
        /\ Len(tnormalized) < 4 => twords = {}
        /\ (Len(ttext) < 4 /\ \A i \in 1..Len(ttext) : ttext[i] <= MaxASCII)
               => twords = {}

\* A three-letter ASCII text, with an upper-case letter, has given no words.
C20_Witness ==
    /\ tdone /\ twords = {}
    /\ Len(ttext) = 3 /\ ttext[2] = 66 /\ \A i \in 1..3 : ttext[i] <= MaxASCII
    /\ Len(tnormalized) = 3

\* Every byte of text is ASCII.
AllASCII(text) == \A i \in 1..Len(text) : text[i] <= MaxASCII

\* C21: for a pure-ASCII text of L >= 4 bytes the words are exactly the
\* 4-byte substrings at the start offsets 0..L-4, so at most L-3 of them
\* and none of another length; for "abcdehdiaba" they hold the eight grams
\* of the test and none of "abc", "abcde", "aba", "ba", "a".
C21_ASCIIGrams ==
    (tdone /\ AllASCII(ttext) /\ Len(ttext) >= 4) =>
        /\ twords = {Slice(ttext, i, i + 4) : i \in 0..(Len(ttext) - 4)}
        /\ Cardinality(twords) <= Len(ttext) - 3
        /\ \A w \in twords : Len(w) = 4
        /\ ttext = TestASCII =>
               /\ {<<97, 98, 99, 100>>, <<98, 99, 100, 101>>,
                   <<99, 100, 101, 104>>, <<100, 101, 104, 100>>,
                   <<101, 104, 100, 105>>, <<104, 100, 105, 97>>,
                   <<100, 105, 97, 98>>, <<105, 97, 98, 97>>} \subseteq twords
               /\ twords \cap {<<97, 98, 99>>, <<97, 98, 99, 100, 101>>,
                               <<97, 98, 97>>, <<98, 97>>, <<97>>} = {}

\* "abcdehdiaba" has given its eight grams.
C21_Witness ==
    tdone /\ ttext = TestASCII /\ Cardinality(twords) = 8

\* The gram of the reference set for start offset i of text.
ReferenceGram(text, i) ==
    IF \A k \in (i + 1)..(i + 4) : text[k] <= MaxASCII
    THEN {Slice(text, i, i + 4)}
    ELSE IF i + 6 <= Len(text) THEN {Slice(text, i, i + 6)}
    ELSE {}

\* C24: for every byte string the words are the union over the start
\* offsets 0..len(text)-4 of: the 4 bytes from the offset when they are all
\* ASCII, else the 6 bytes from the offset when the text has them, else
\* nothing; every word has 4 or 6 bytes and every word of 4 bytes is ASCII.
C24_ReferenceGrams ==
    tdone =>
        /\ twords = UNION {ReferenceGram(ttext, i) :
                               i \in 0..(Len(ttext) - 4)}
        /\ \A w \in twords : /\ Len(w) \in {4, 6}
                             /\ Len(w) = 4 => AllASCII(w)

\* A text of seven bytes, ASCII and non-ASCII, has given a word of 4 bytes
\* and a word of 6 bytes, and nothing for its last start offset.
C24_Witness ==
    /\ tdone /\ Len(ttext) = 7
    /\ \E w \in twords : Len(w) = 4
    /\ \E w \in twords : Len(w) = 6
    /\ ReferenceGram(ttext, 3) = {}

\* C28: list accepts a search exactly when the tokenizer emits a word for
\* start offset 0 of it, and then the key of its query is that word: the
\* first 4 bytes when they are all ASCII, else the first 6 bytes.
C28_LookupIsFirstGram ==
    tlookup # NoLookup =>
        LET first == IF Len(ttext) < GramSizeForAscii THEN {}
                     ELSE ScanGram(ttext, 0, 0, TRUE)
        IN  /\ tlookup.status = 0 <=> first # {}
            /\ tlookup.status = 0 =>
                   /\ first = {tlookup.bytes}
                   /\ tlookup.bytes =
                          IF AllASCII(Slice(ttext, 0, 4))
                          THEN Slice(ttext, 0, 4) ELSE Slice(ttext, 0, 6)

\* list has taken a key of 6 bytes for a search that starts with an ASCII
\* byte.
C28_Witness ==
    /\ tlookup.status = 0 /\ Len(tlookup.bytes) = 6
    /\ ttext[1] <= MaxASCII

\* Every code point of text takes three bytes in UTF-8.
AllThreeBytes(text) == \A i \in 1..Len(text) : Len(UTF8Rune(text[i])) = 3

\* The words of two characters of text, one per character that has a next.
CharacterGrams(text) ==
    {UTF8(SubSeq(text, k, k + 1)) : k \in 1..(Len(text) - 1)}

\* C22, as stated: for a normalized text of n >= 2 characters of three
\* bytes each, the words are exactly the n-1 words of two characters.
C22_OnlyCharacterGrams ==
    (tdone /\ Len(ttext) >= 2 /\ AllThreeBytes(ttext)
           /\ Normalize(ttext) = ttext) =>
        twords = CharacterGrams(ttext)

\* C22, amended: for a normalized text of n >= 2 characters of three bytes
\* each, the words hold the words of two characters, one per character
\* start (n-1 of them when the characters differ pairwise), and every other
\* word is a window of 6 bytes that starts inside a character: 3n-5 words
\* at most.
C22_CharacterGramsAmongWindows ==
    (tdone /\ Len(ttext) >= 2 /\ AllThreeBytes(ttext)
           /\ Normalize(ttext) = ttext) =>
        LET n == Len(ttext)
        IN  /\ CharacterGrams(ttext) \subseteq twords
            /\ (\A k, l \in 1..n : k # l => ttext[k] # ttext[l]) =>
                   Cardinality(CharacterGrams(ttext)) = n - 1
            /\ \A w \in twords :
                   /\ Len(w) = 6
                   /\ \E o \in 0..(3 * n - 6) :
                          w = Slice(tnormalized, o, o + 6)
            /\ Cardinality(twords) <= 3 * n - 5

\* Four different characters of three bytes each have given their three
\* words of two characters and four words more.
C22_Witness ==
    /\ tdone /\ ttext = TestFourWide /\ AllThreeBytes(ttext)
    /\ Cardinality(CharacterGrams(ttext)) = 3
    /\ Cardinality(twords) = 7

\* C23: for a text of characters of three bytes, L >= 6 bytes long, the
\* words hold the 6 bytes from every byte offset 0..L-6, the offsets inside
\* a character too; for "日本語" these are the offsets 0, 1, 2 and 3.
C23_UnalignedWindows ==
    (tdone /\ AllThreeBytes(ttext) /\ Normalize(ttext) = ttext
           /\ Len(tnormalized) >= 6) =>
        /\ Len(tnormalized) = 3 * Len(ttext)
        /\ \A o \in 0..(Len(tnormalized) - 6) :
               Slice(tnormalized, o, o + 6) \in twords
        /\ ttext = TestNonASCII =>
               {<<230, 151, 165, 230, 156, 172>>,
                <<151, 165, 230, 156, 172, 232>>,
                <<165, 230, 156, 172, 232, 170>>,
                <<230, 156, 172, 232, 170, 158>>} \subseteq twords

\* "日本語" has given four words.
C23_Witness ==
    tdone /\ ttext = TestNonASCII /\ Cardinality(twords) = 4

\* "aacenouaeijoess"
TestNormalized ==
    <<97, 97, 99, 101, 110, 111, 117, 97, 101, 105, 106, 111, 101, 115, 115>>

\* C25: Normalize(Normalize(s)) = Normalize(s).
C25_NormalizeIdempotent ==
    tagain # NotCalled => tagain = Normalize(ttext)

\* Normalize has been called twice on the text of the normalization test,
\* which the first call changed.
C25_Witness ==
    /\ ttext = TestNormalization /\ tagain = TestNormalized
    /\ Normalize(ttext) # ttext

\* C26: Normalize(upper(x)) = Normalize(x).
C26_NormalizeCaseInsensitive ==
    tupper # NotCalled => tupper = Normalize(ttext)

\* C27: the words are those of the normalized text, which has no
\* upper-case letter, none of the combining marks and none of the ligatures
\* of Normalize; when it is ASCII the words hold every window of 4 bytes of
\* it, and the text of the test normalizes to "aacenouaeijoess" and gives
\* the twelve words of the test.
C27_GramsOfNormalizedText ==
    tdone =>
        /\ \A cp \in CombiningMarks \cup {230, 307, 339, 223} :
               ~Contains(tnormalized, UTF8Rune(cp))
        /\ \A k \in 1..Len(tnormalized) : ~(tnormalized[k] \in 65..90)
        /\ (AllASCII(tnormalized) /\ Len(tnormalized) >= 4) =>
               \A o \in 0..(Len(tnormalized) - 4) :
                   Slice(tnormalized, o, o + 4) \in twords
        /\ ttext = TestNormalization =>
               /\ tnormalized = TestNormalized
               /\ {<<97, 97, 99, 101>>, <<97, 99, 101, 110>>,
                   <<99, 101, 110, 111>>, <<101, 110, 111, 117>>,
                   <<110, 111, 117, 97>>, <<111, 117, 97, 101>>,
                   <<117, 97, 101, 105>>, <<97, 101, 105, 106>>,
                   <<101, 105, 106, 111>>, <<105, 106, 111, 101>>,
                   <<106, 111, 101, 115>>, <<111, 101, 115, 115>>}
                      = twords

\* The text of the normalization test has given its twelve words.
C27_Witness ==
    tdone /\ ttext = TestNormalization /\ Cardinality(twords) = 12

\* C29, as stated: a phrase of 3 characters is rejected, a phrase of 4 ASCII
\* characters and a phrase of 2 characters of three bytes are accepted.
C29_ThreeRejected ==
    tlookup # NoLookup =>
        /\ Len(ttext) = 3 => tlookup.status \in {400, 404}
        /\ (Len(ttext) = 4 /\ AllASCII(ttext)) => tlookup.status = 0
        /\ (Len(ttext) = 2 /\ AllThreeBytes(ttext)) => tlookup.status = 0

\* C29, amended: a phrase of 3 ASCII characters is rejected, a phrase of 4
\* ASCII characters and a phrase of 2 characters of three bytes that
\* Normalize leaves as they are are accepted.
C29_ThreeASCIIRejected ==
    tlookup # NoLookup =>
        /\ (Len(ttext) = 3 /\ AllASCII(ttext)) => tlookup.status = 400
        /\ (Len(ttext) = 4 /\ AllASCII(ttext)) => tlookup.status = 0
        /\ (Len(ttext) = 2 /\ AllThreeBytes(ttext)
                /\ Normalize(ttext) = ttext) => tlookup.status = 0

\* A phrase of two hiragana letters has been accepted, with its 6 bytes as
\* the key.
C29_Witness ==
    /\ ttext = <<12354, 12356>> /\ tlookup.status = 0
    /\ tlookup.bytes = <<227, 129, 130, 227, 129, 132>>

\* C30: every Piece of a 200 answer of list holds the whole normalized
\* phrase of the request in its lower-cased Title, Album, Artist or
\* AlbumArtist.
C30_ReturnedContainsPhrase ==
    [][(lpc = "fetch" /\ response'.status = 200) =>
           \A k \in 1..Len(response'.pieces) :
               \E f \in {"Title", "Album", "Artist", "AlbumArtist"} :
                   Contains(UTF8(ToLower(response'.pieces[k].Tags[f])),
                            lsearch)]_vars

\* list has fetched every Piece indexed under the leading gram of "abcde"
\* and is about to answer with none of them.
C30_Witness ==
    /\ lpc = "fetch" /\ liter = <<>> /\ lpieces = <<>>
    /\ lsearch = <<97, 98, 99, 100, 101>> /\ lastKey # NilKey
    /\ \E id \in DOMAIN pieces :
           Contains(UTF8(ToLower(pieces[id].Tags.Title)), <<97, 98, 99, 100>>)

\* The grams of the lower-cased, normalized searchable fields of tags.
FieldGrams(tags) ==
    UNION {generateWordsForIndexInternal(UTF8(Normalize(ToLower(tags[f])))) :
               f \in {"Title", "Album", "Artist", "AlbumArtist", "Composer"}}

\* C31: when updateMetadata has returned nil, the index entries whose Value
\* is the key of the Piece it inserted are one for each gram of the five
\* searchable fields of that Piece, lower-cased and normalized, and none
\* else: no gram is missing and no entry is stored twice.
C31_IndexOfNewPieceExact ==
    (upc = "idle" /\ result = "nil") =>
        \A k \in DOMAIN pieces :
            KeyValue(k) = cur.key =>
                /\ pieces[k] = cur.m
                /\ {e.Key : e \in IndexQueryByValue(index, cur.key)}
                       = FieldGrams(cur.m.Tags)
                /\ \A w \in FieldGrams(cur.m.Tags) :
                       CopiesIn(PieceIndex(w, cur.key), index) = 1

\* updateMetadata has returned nil for the track with the edited tags: its
\* Piece has the grams "abcd" and "bcde" of its title, while the entries of
\* the Piece it replaced, with the gram "wxyz", are still stored.
C31_Witness ==
    /\ upc = "idle" /\ result = "nil" /\ cur.key # NilKey
    /\ cur.m.Tags = TagsNew
    /\ CopiesIn(PieceIndex(<<97, 98, 99, 100>>, cur.key), index) = 1
    /\ CopiesIn(PieceIndex(<<98, 99, 100, 101>>, cur.key), index) = 1
    /\ \E e \in BagToSet(index) :
           e.Key = TextWxyz /\ e.Value # cur.key

\* C32: updateMetadata returns nil only when the transaction that deletes
\* the old Pieces and puts the new Piece has committed, so that the new
\* Piece is stored, and the transaction of spanPieceIndex has committed.
C32_NilOnlyIfCommitted ==
    (upc = "idle" /\ result = "nil") =>
        /\ ~stepFailed
        /\ cur.key # NilKey
        /\ cur.key.id \in DOMAIN pieces
        /\ pieces[cur.key.id] = cur.m

\* A name is kept in the ledger by at most one settle pass after its last
\* touch: the second pass that follows the touch, if not the first, finds
\* it settled and forwards it.
ForwardedBySecondPass ==
    \A p \in Paths :
        /\ kept[p] <= 1
        /\ (kept[p] = 1 /\ p \in DOMAIN oldFilenames) =>
               IsSettled(oldFilenames[p])

\* The second settle pass after the touch of a name has begun and is about
\* to forward the name, which the first pass kept.
C33_Witness ==
    \E p \in Paths :
        /\ kept[p] = 1 /\ dpc = "pass" /\ p \in DOMAIN oldFilenames
        /\ IsSettled(oldFilenames[p])

\* The name p is in the ledger, or in the hands of a settle pass.
InLedgerOrPass(p) ==
    \/ p \in DOMAIN filenames
    \/ p \in DOMAIN oldFilenames
    \/ dpc = "send" /\ sending = p

\* A name that is pending is forwarded or touched again, unless syncInternal
\* has stopped receiving.
NeverPendingForever ==
    \A p \in Paths :
        (InLedgerOrPass(p) /\ sinceTouch[p] > 0) ~>
            (~InLedgerOrPass(p) \/ sinceTouch[p] = 0
                 \/ syncer \in {"returned", "panicked"})

\* C33: a name that is touched and not touched again is forwarded by the
\* second settle pass that follows the touch at the latest, and it does not
\* stay pending forever while syncInternal keeps receiving.
C33_ForwardedBySecondPass == []ForwardedBySecondPass /\ NeverPendingForever

\* C34: when list accepts a search that occurs in a text as a run of bytes,
\* the key of its index query is one of the words of the text.
C34_NoFalseNegatives ==
    (tdone /\ tlookup.status = 0 /\ Contains(ttext, tphrase)) =>
        tlookup.bytes \in twords

\* A search of six bytes that begins with a non-ASCII byte and occurs inside
\* a longer text has been accepted, and the text has words of four bytes
\* too.
C34_Witness ==
    /\ tdone /\ tlookup.status = 0 /\ Len(tlookup.bytes) = 6
    /\ tphrase[1] > MaxASCII /\ Len(tphrase) < Len(ttext)
    /\ tphrase # Slice(ttext, 0, Len(tphrase))
    /\ \E w \in twords : Len(w) = 4

\* The Piece k is stored with the index entries of all its grams.
FullyIndexed(k) == IndexKeysOf(k) = IndexWords(pieces[k].Tags)

\* A lower-cased and normalized Title, Album, Artist or AlbumArtist of tags
\* contains search.
NormalizedFieldContains(tags, search) ==
    \E f \in {"Title", "Album", "Artist", "AlbumArtist"} :
        Contains(UTF8(Normalize(ToLower(tags[f]))), search)

\* The number of index entries whose Key is bytes.
EntriesWithKey(bytes) ==
    BagCardinality([e \in {x \in BagToSet(index) : x.Key = bytes}
                        |-> CopiesIn(e, index)])

\* C35: when a list request ends while the datastore is not written to,
\* every stored and fully indexed Piece with a normalized field that
\* contains the normalized phrase is in the answer, provided that no more
\* index entries have the lookup gram as their Key than the limit allows.
C35_SearchAgreesWithIndexing ==
    [][(lpc = "fetch" /\ lpc' = "idle") =>
           \A k \in DOMAIN pieces :
               (/\ FullyIndexed(k)
                /\ NormalizedFieldContains(pieces[k].Tags, lsearch)
                /\ EntriesWithKey(LookupGram(lsearch).bytes) <= llimit)
                   => /\ response'.status = 200
                      /\ pieces[k] \in Range(response'.pieces)]_vars

\* The Values of the index entries list has read for its search.
ValuesRead ==
    Range(IndexQueryByKey(index, LookupGram(lsearch).bytes, llimit))

\* client.Get fails for the key v.
Unfetchable(v) == v = NilKey \/ v.id \notin DOMAIN pieces

\* C36: when a list request ends while the datastore is not written to,
\* and one of the index entries read references a Piece that cannot be
\* fetched, the answer is 500 without a result list; when all of them can
\* be fetched the answer is 200.
C36_UnfetchablePieceFailsQuery ==
    [][(lpc = "fetch" /\ lpc' = "idle") =>
           IF \E v \in ValuesRead : Unfetchable(v)
           THEN response' = [status |-> 500, pieces |-> <<>>]
           ELSE response'.status = 200]_vars

\* list has answered 500 to a search for "abcd" although a stored and
\* fully indexed Piece with that title was among the entries read: another
\* entry read references a Piece that a later sync deleted.
C36_Witness ==
    /\ response = [status |-> 500, pieces |-> <<>>]
    /\ lpc = "idle" /\ upc = "idle"
    /\ \E k \in DOMAIN pieces :
           /\ FullyIndexed(k) /\ pieces[k].Tags.Title = TextAbcd
    /\ \E e \in BagToSet(index) :
           e.Key = TextAbcd /\ e.Value # NilKey /\ Unfetchable(e.Value)

=============================================================================
